---- MODULE Spec2Model ----
(***************************************************************************)
(* Moss samples: the sample scripts (clustering poll loop, comprehensive   *)
(* sample, custom-embedding sample, load-and-query sample), the Next.js    *)
(* server action searchMoss, and the VitePress search modal.               *)
(*                                                                         *)
(* The Moss SDK is a black box: every awaited SDK call either resolves or  *)
(* throws, chosen nondeterministically.                                    *)
(***************************************************************************)
EXTENDS Integers, Sequences, FiniteSets, TLC

\* ------------------------------------------------------------------------
\* Bounds
\* ------------------------------------------------------------------------
\* job.progress values reported by the service are drawn from 0..MaxProgress
MaxProgress == 2
\* successful getJobStatus polls are logged in calls up to this log length
MaxCalls == 6
\* the progress lines printed are kept up to this many, the oldest dropped first
MaxLines == 2

\* ------------------------------------------------------------------------
\* State of the scripts
\* ------------------------------------------------------------------------
VARIABLES
  program,      \* which entry point was started
  env,          \* the set of environment variables that are set
  pc,           \* position of the running async function
  calls,        \* log of the SDK calls issued: <<[op, arg, outcome]>>
  exitCode,     \* -1 while running, else the process exit code
  rejected,     \* the promise of the entry function rejected
  step,         \* number of the step the try block is at
  i,            \* loop index of the query loops
  jobStatus,    \* status of the clustering job on the service
  job,          \* job returned by the last getJobStatus poll
  lastProgress, \* clustering.ts: let lastProgress
  ret           \* value searchMoss resolved to

scriptVars == <<program, env, pc, calls, exitCode, rejected, step, i, jobStatus, job,
                lastProgress, ret>>

\* ------------------------------------------------------------------------
\* State of the search modal
\* ------------------------------------------------------------------------
VARIABLES
  isOpen, query, results, selectedIndex, isIndexLoading, isSearching, errorMsg,
  mossClient,     \* TRUE when a MossClient has been constructed
  indexLoaded,
  debounceTimer,  \* 0 for null, else the id setTimeout returned
  timers,         \* the pending timeouts: [id, q, age]
  importing,      \* loadIndex invocations awaiting import('@inferedge/moss')
  loading,        \* loadIndex invocations awaiting mossClient.loadIndex
  inflight,       \* performSearch invocations awaiting mossClient.query
  sinceChange,    \* ms since query last changed, up to DebounceDelay
  lastSearch,     \* the last performSearch invocation
  lastOpen        \* what the last open() call found: "none" before any

searchVars == <<isOpen, query, results, selectedIndex, isIndexLoading, isSearching,
                errorMsg, mossClient, indexLoaded, debounceTimer, timers, importing,
                loading, inflight, sinceChange, lastSearch, lastOpen>>

\* ------------------------------------------------------------------------
\* Inputs of a run, fixed when it starts
\* ------------------------------------------------------------------------
VARIABLES
  indexSet,       \* process.env.MOSS_INDEX_SET: [set, text]
  files           \* the names readdir finds in data/conversations, in order

inputVars == <<indexSet, files>>

\* ------------------------------------------------------------------------
\* State of createConversationIndexes
\* ------------------------------------------------------------------------
VARIABLES
  listing,        \* outcome of readdir: "none" before it settled
  jsonFiles,      \* const jsonFiles
  processed,      \* log of the loop iterations: <<[file, docs, created]>>
  successCount,
  failCount

convVars == <<listing, jsonFiles, processed, successCount, failCount>>

\* ------------------------------------------------------------------------
\* State of the voice-agent component
\* ------------------------------------------------------------------------
VARIABLES
  status,          \* useState('disconnected')
  agentReady,
  isAgentSpeaking,
  roomRef,         \* roomRef.current: 0 for null, else the number of a Room
  rooms,           \* the Room objects created: <<[state, listeners, ended]>>
  connects,        \* connectToRoom invocations in progress: <<[status, at, room]>>
  disconnects,     \* the rooms of the disconnect() calls disconnectFromRoom awaits
  errorTimers      \* pending 5000 ms timeouts, counted by the status they captured

voiceVars == <<status, agentReady, isAgentSpeaking, roomRef, rooms, connects,
               disconnects, errorTimers>>

\* ------------------------------------------------------------------------
\* What the clustering poll loop did, as seen from outside
\* ------------------------------------------------------------------------
VARIABLES
  sleeps,          \* delays (ms) of the timeouts main awaited since its last poll
  lines,           \* progress values of the "[p%] phase" lines printed
  shown            \* the last poll that returned printed a line

loopVars == <<sleeps, lines, shown>>

vars == <<scriptVars, inputVars, convVars, searchVars, voiceVars, loopVars>>

Programs == {"clustering", "subsetClustering", "comprehensive", "customEmbedding",
             "loadAndQuery", "searchMoss", "conversationIndexes"}
\* the two scripts that run the clustering poll loop
ClusterPrograms == {"clustering", "subsetClustering"}
EnvNames == {"MOSS_PROJECT_ID", "MOSS_PROJECT_KEY", "MOSS_INDEX_NAME", "OPENAI_API_KEY"}
NoJob == [status |-> "none", progress |-> -1]
NoRet == [success |-> FALSE, error |-> ""]
Terminal == {"completed", "failed"}

\* the outcome of one awaited SDK call: it resolves, it throws an Error, it
\* throws a non-Error value, or it resolves to a value the caller's next
\* property access throws on
Outcomes == {"ok", "throwError", "throwOther", "malformed"}
Throws == {"throwError", "throwOther"}

Call(op, arg, outcome) == [op |-> op, arg |-> arg, outcome |-> outcome]
\* a call that resolved to value, where a later step depends on the value
CallReturning(op, arg, value) ==
  [op |-> op, arg |-> arg, outcome |-> "ok", value |-> value]
\* the call did not throw
Returned(c) == c.outcome \notin Throws

\* calls with one more entry; the poll loop is unbounded, so successful polls
\* stop being logged once the log holds MaxCalls entries
Record(e) ==
  IF e.op = "getJobStatus" /\ Returned(e) /\ Len(calls) >= MaxCalls THEN calls
  ELSE Append(calls, e)

\* texts are sequences of characters
RECURSIVE TrimStart(_)
TrimStart(t) == IF t # <<>> /\ Head(t) = " " THEN TrimStart(Tail(t)) ELSE t
RECURSIVE TrimEnd(_)
TrimEnd(t) ==
  IF t # <<>> /\ t[Len(t)] = " " THEN TrimEnd(SubSeq(t, 1, Len(t) - 1)) ELSE t
\* String.prototype.trim
Trim(t) == TrimEnd(TrimStart(t))

\* String.prototype.split(','): the pieces of t between the commas
RECURSIVE Split(_)
Split(t) ==
  IF \A k \in DOMAIN t : t[k] # "," THEN <<t>>
  ELSE LET k == CHOOSE n \in DOMAIN t : t[n] = "," /\ \A m \in 1..(n - 1) : t[m] # ","
       IN <<SubSeq(t, 1, k - 1)>> \o Split(SubSeq(t, k + 1, Len(t)))

\* Array.prototype.map(name => name.trim())
RECURSIVE TrimAll(_)
TrimAll(names) == IF names = <<>> THEN <<>> ELSE <<Trim(Head(names))>> \o TrimAll(Tail(names))

\* Boolean(name) of a string
Truthy(name) == name # <<>>

\* a filter that keeps the empty names
KeepAll(name) == TRUE

\* the predicate of .filter(Boolean)
Kept(name) == Truthy(name)

\* the default subset; each name is written as one character
DefaultIndexNames == << <<"support-tickets">>, <<"billing-2024">> >>

\* const indexNames = MOSS_INDEX_SET ? MOSS_INDEX_SET.split(',')... : [...]
indexNames(v) ==
  IF v.set /\ Truthy(v.text) THEN SelectSeq(TrimAll(Split(v.text)), Kept)
  ELSE DefaultIndexNames

Unset == [set |-> FALSE, text |-> <<>>]
\* the values MOSS_INDEX_SET takes
IndexSets ==
  {Unset} \cup {[set |-> TRUE, text |-> t] :
                  t \in {<<>>, <<"a">>, <<"a", ",", "b">>, <<" ", "a", ",", " ", "b", " ">>,
                         <<",">>, <<"a", ",", ",", "b">>}}

\* a directory holds at most MaxFiles entries
MaxFiles == 2
\* a conversation file holds at most MaxMessages messages
MaxMessages == 1

\* file names, as sequences of characters with the extensions written as one
\* character each
FileNames == {<<"a", ".json">>, <<"b", ".json">>, <<"notes", ".txt">>,
              <<".json", "a", ".json">>, <<"a", ".json", ".json">>}
\* the directory listings: the names of a directory differ from one another
Listings == {l \in UNION {[1..n -> FileNames] : n \in 0..MaxFiles} :
               \A j, k \in DOMAIN l : j # k => l[j] # l[k]}

\* nothing waited for, nothing printed
LoopInit == sleeps = <<>> /\ lines = <<>> /\ shown = FALSE

ScriptInit ==
  /\ program \in Programs
  /\ env \in SUBSET EnvNames
  /\ indexSet \in IF program = "subsetClustering" THEN IndexSets ELSE {Unset}
  /\ files \in IF program = "conversationIndexes" THEN Listings ELSE {<<>>}
  /\ listing = "none" /\ jsonFiles = <<>> /\ processed = <<>>
  /\ successCount = 0 /\ failCount = 0
  /\ pc = "start"
  /\ calls = <<>>
  /\ exitCode = -1
  /\ rejected = FALSE
  /\ step = 0
  /\ i = 0
  /\ jobStatus = "none"
  /\ job = NoJob
  /\ lastProgress = -1
  /\ ret = NoRet
  /\ LoopInit

\* process.exit(code)
Exit(code) == pc' = "exited" /\ exitCode' = code

\* ------------------------------------------------------------------------
\* clustering.ts: main
\* ------------------------------------------------------------------------
ClusterStart ==
  /\ program \in ClusterPrograms /\ pc = "start"
  /\ IF {"MOSS_PROJECT_ID", "MOSS_PROJECT_KEY"} \subseteq env
       THEN pc' = "hasActiveClustering" /\ exitCode' = exitCode
       ELSE Exit(1)
  /\ UNCHANGED <<program, env, calls, rejected, step, i, jobStatus, job, lastProgress, ret>>
  /\ UNCHANGED <<inputVars, convVars, searchVars, voiceVars, loopVars>>

\* main().catch(error => { ...; process.exit(1) })
ClusterFatal == rejected' = TRUE /\ Exit(1)

\* a script that never deletes the existing clustering
AfterHasActiveNoDelete(active) == "startClusterGeneration"

\* if (await clustering.hasActiveClustering()) { await deleteClustering() }
AfterHasActive(active) == IF active THEN "deleteClustering" ELSE "startClusterGeneration"

ClusterHasActive ==
  /\ program \in ClusterPrograms /\ pc = "hasActiveClustering"
  /\ \E r \in {"true", "false", "throwError"} :
       /\ calls' = Record(IF r = "throwError" THEN Call("hasActiveClustering", "", r)
                           ELSE CallReturning("hasActiveClustering", "", r = "true"))
       /\ IF r # "throwError"
            THEN /\ pc' = AfterHasActive(r = "true")
                 /\ UNCHANGED <<exitCode, rejected>>
            ELSE ClusterFatal
  /\ UNCHANGED <<program, env, step, i, jobStatus, job, lastProgress, ret>>
  /\ UNCHANGED <<inputVars, convVars, searchVars, voiceVars, loopVars>>

ClusterDelete ==
  /\ program \in ClusterPrograms /\ pc = "deleteClustering"
  /\ \E o \in {"ok", "throwError"} :
       /\ calls' = Record(Call("deleteClustering", "", o))
       /\ IF o = "ok"
            THEN pc' = "startClusterGeneration" /\ UNCHANGED <<exitCode, rejected>>
            ELSE ClusterFatal
  /\ UNCHANGED <<program, env, step, i, jobStatus, job, lastProgress, ret>>
  /\ UNCHANGED <<inputVars, convVars, searchVars, voiceVars, loopVars>>

\* the index names passed: startClusterGeneration(5) passes none,
\* startClusterGeneration(5, { indexNames }) passes indexNames
StartArg == IF program = "subsetClustering" THEN indexNames(indexSet) ELSE <<>>

ClusterStartJob ==
  /\ program \in ClusterPrograms /\ pc = "startClusterGeneration"
  /\ \E o \in {"ok", "throwError"} :
       /\ calls' = Record(Call("startClusterGeneration", StartArg, o))
       /\ IF o = "ok"
            THEN /\ pc' = "getJobStatus"
                 /\ jobStatus' = "queued"
                 /\ lastProgress' = -1
                 /\ UNCHANGED <<exitCode, rejected>>
            ELSE ClusterFatal /\ UNCHANGED <<jobStatus, lastProgress>>
  /\ UNCHANGED <<program, env, step, i, job, ret>>
  /\ UNCHANGED <<inputVars, convVars, searchVars, voiceVars, loopVars>>

\* a loop whose wait comes before the tests of job.status
AfterPollAlwaysWait(j) == "wait"

\* AfterPoll without the 'failed' branch
AfterPollNoFailed(j) == IF j.status \in Terminal THEN "getClusters" ELSE "wait"

\* AfterPoll without the break of the 'completed' branch
AfterPollNoBreak(j) == IF j.status = "failed" THEN "exited" ELSE "wait"

\* where main goes after a poll returned job j
AfterPoll(j) ==
  IF j.status = "completed" THEN "getClusters"
  ELSE IF j.status = "failed" THEN "exited"
  ELSE "wait"

\* a loop that prints the progress line on every poll
ProgressAlwaysShown(progress, last) == TRUE

\* if (job.progress !== lastProgress)
ProgressChanged(progress, last) == progress # last

\* console.log(`   [${job.progress}%] ${phase}`): ls with one more line
PrintLine(ls, progress) ==
  IF Len(ls) < MaxLines THEN Append(ls, progress) ELSE Append(Tail(ls), progress)

\* one iteration of while (true) up to the wait
ClusterPoll ==
  /\ program \in ClusterPrograms /\ pc = "getJobStatus"
  /\ \E o \in {"ok", "throwError"}, p \in 0..MaxProgress :
       /\ calls' = Record(Call("getJobStatus", "jobId", o))
       /\ sleeps' = <<>>
       /\ IF o = "ok"
            THEN LET j == [status |-> jobStatus, progress |-> p] IN
                 /\ job' = j
                 /\ shown' = ProgressChanged(j.progress, lastProgress)
                 /\ lines' = IF shown' THEN PrintLine(lines, j.progress) ELSE lines
                 /\ lastProgress' = IF shown' THEN j.progress ELSE lastProgress
                 /\ pc' = AfterPoll(j)
                 /\ exitCode' = IF AfterPoll(j) = "exited" THEN 1 ELSE exitCode
                 /\ UNCHANGED rejected
            ELSE ClusterFatal /\ UNCHANGED <<job, lastProgress, lines, shown>>
  /\ UNCHANGED <<program, env, step, i, jobStatus, ret>>
  /\ UNCHANGED <<inputVars, convVars, searchVars, voiceVars>>

\* the delay of the timeout at the end of the loop body, in ms
PollDelay == 7000

\* await new Promise(r => setTimeout(r, 7000))
ClusterWait ==
  /\ program \in ClusterPrograms /\ pc = "wait"
  /\ pc' = "getJobStatus"
  /\ sleeps' = Append(sleeps, PollDelay)
  /\ UNCHANGED <<program, env, calls, exitCode, rejected, step, i, jobStatus, job, lastProgress, ret>>
  /\ UNCHANGED <<inputVars, convVars, searchVars, voiceVars, lines, shown>>

ClusterGetClusters ==
  /\ program \in ClusterPrograms /\ pc = "getClusters"
  /\ \E o \in {"ok", "throwError", "malformed"} :
       /\ calls' = Record(Call("getClusters", "", o))
       /\ IF o = "ok"
            THEN pc' = "exited" /\ exitCode' = 0 /\ UNCHANGED rejected
            ELSE ClusterFatal
  /\ UNCHANGED <<program, env, step, i, jobStatus, job, lastProgress, ret>>
  /\ UNCHANGED <<inputVars, convVars, searchVars, voiceVars, loopVars>>

\* the service works on the job: queued -> running -> completed | failed
JobAdvance ==
  /\ program \in ClusterPrograms
  /\ \/ jobStatus = "queued" /\ jobStatus' = "running"
     \/ jobStatus = "running" /\ jobStatus' \in Terminal
  /\ UNCHANGED <<program, env, pc, calls, exitCode, rejected, step, i, job, lastProgress, ret>>
  /\ UNCHANGED <<inputVars, convVars, searchVars, voiceVars, loopVars>>

ClusterMain ==
  \/ ClusterStart \/ ClusterHasActive \/ ClusterDelete \/ ClusterStartJob
  \/ ClusterPoll \/ ClusterWait \/ ClusterGetClusters

\* ------------------------------------------------------------------------
\* comprehensive_sample.ts: comprehensiveMossExample
\* ------------------------------------------------------------------------
\* searchQueries of step 8
searchQueries == <<"artificial intelligence and machine learning",
                   "data analysis and business insights",
                   "visual recognition and image processing",
                   "cybersecurity and data protection",
                   "healthcare innovation and biotechnology",
                   "sustainable technology and environment">>

\* the awaited SDK call of each numbered step; deref: the step reads a
\* property of the resolved value
CompSteps == <<
  [op |-> "createIndex", arg |-> "documents",       deref |-> FALSE],
  [op |-> "getIndex",    arg |-> "",                deref |-> TRUE],
  [op |-> "listIndexes", arg |-> "",                deref |-> TRUE],
  [op |-> "addDocs",     arg |-> "additionalDocs",  deref |-> FALSE],
  [op |-> "getDocs",     arg |-> "",                deref |-> TRUE],
  [op |-> "getDocs",     arg |-> "targetDocIds",    deref |-> TRUE],
  [op |-> "loadIndex",   arg |-> "",                deref |-> FALSE],
  [op |-> "query",       arg |-> "searchQueries",   deref |-> TRUE],
  [op |-> "deleteDocs",  arg |-> "docsToDelete",    deref |-> FALSE],
  [op |-> "getDocs",     arg |-> "",                deref |-> TRUE],
  [op |-> "query",       arg |-> "technology innovation and automation", deref |-> TRUE],
  [op |-> "deleteIndex", arg |-> "",                deref |-> FALSE] >>

QueryLoopStep == 8

CompArg(st, k) == IF st = QueryLoopStep THEN searchQueries[k + 1] ELSE CompSteps[st].arg

\* the outcomes a step can have
StepOutcomes(deref) == IF deref THEN Outcomes ELSE Outcomes \ {"malformed"}

CompStart ==
  /\ program = "comprehensive" /\ pc = "start"
  /\ IF {"MOSS_PROJECT_ID", "MOSS_PROJECT_KEY"} \subseteq env
       THEN pc' = "try" /\ step' = 1 /\ exitCode' = exitCode
       ELSE pc' = "exited" /\ step' = step /\ exitCode' = 0
  /\ UNCHANGED <<program, env, calls, rejected, i, jobStatus, job, lastProgress, ret>>
  /\ UNCHANGED <<inputVars, convVars, searchVars, voiceVars, loopVars>>

\* one awaited call of the try block, and the statements up to the next one
CompCall ==
  /\ program = "comprehensive" /\ pc = "try"
  /\ \E o \in StepOutcomes(CompSteps[step].deref) :
       /\ calls' = Record(Call(CompSteps[step].op, CompArg(step, i), o))
       /\ IF o # "ok"
            THEN pc' = "catch" /\ UNCHANGED <<step, i, exitCode>>
            ELSE IF step = QueryLoopStep /\ i + 1 < Len(searchQueries)
            THEN i' = i + 1 /\ UNCHANGED <<pc, step, exitCode>>
            ELSE IF step = Len(CompSteps)
            THEN pc' = "exited" /\ exitCode' = 0 /\ UNCHANGED <<step, i>>
            ELSE step' = step + 1 /\ UNCHANGED <<pc, i, exitCode>>
  /\ UNCHANGED <<program, env, rejected, jobStatus, job, lastProgress, ret>>
  /\ UNCHANGED <<inputVars, convVars, searchVars, voiceVars, loopVars>>

\* the cleanup's deleteIndex without the try/catch around it
CleanupRethrows(o) == o \in Throws

\* does the promise reject when the cleanup's deleteIndex has outcome o
CleanupRejects(o) == FALSE

\* a catch block without the cleanup
CompNoCleanup ==
  /\ program = "comprehensive" /\ pc = "catch"
  /\ pc' = "exited"
  /\ exitCode' = 0
  /\ UNCHANGED <<program, env, calls, rejected, step, i, jobStatus, job, lastProgress, ret>>
  /\ UNCHANGED <<inputVars, convVars, searchVars, voiceVars, loopVars>>

\* catch (error) { ...; try { await client.deleteIndex(indexName) } catch {} }
CompCleanup ==
  /\ program = "comprehensive" /\ pc = "catch"
  /\ \E o \in StepOutcomes(FALSE) :
       /\ calls' = Record(Call("deleteIndex", "", o))
       /\ rejected' = CleanupRejects(o)
  /\ pc' = "exited"
  /\ exitCode' = 0
  /\ UNCHANGED <<program, env, step, i, jobStatus, job, lastProgress, ret>>
  /\ UNCHANGED <<inputVars, convVars, searchVars, voiceVars, loopVars>>

Comprehensive == CompStart \/ CompCall \/ CompCleanup

\* ------------------------------------------------------------------------
\* custom embedding sample: main
\* ------------------------------------------------------------------------
WORKFLOW_QUERY == "when does the Pine Grove gardening club meet?"

\* the awaited steps of main's try block, in order
CustomSteps == <<
  [kind |-> "openai", op |-> "embeddings.create", arg |-> "INITIAL_DOCUMENTS", deref |-> FALSE],
  [kind |-> "moss",   op |-> "createIndex", arg |-> "initialDocsWithEmbeddings", deref |-> FALSE],
  [kind |-> "wait",   op |-> "setTimeout",  arg |-> "3000",               deref |-> FALSE],
  [kind |-> "openai", op |-> "embeddings.create", arg |-> "NEW_DOCUMENTS", deref |-> FALSE],
  [kind |-> "moss",   op |-> "addDocs",     arg |-> "docsWithEmbeddings", deref |-> TRUE],
  [kind |-> "wait",   op |-> "setTimeout",  arg |-> "2000",               deref |-> FALSE],
  [kind |-> "openai", op |-> "embeddings.create", arg |-> WORKFLOW_QUERY, deref |-> FALSE],
  [kind |-> "moss",   op |-> "query",       arg |-> WORKFLOW_QUERY,       deref |-> TRUE],
  [kind |-> "moss",   op |-> "loadIndex",   arg |-> "",                   deref |-> FALSE],
  [kind |-> "moss",   op |-> "query",       arg |-> WORKFLOW_QUERY,       deref |-> TRUE] >>

CustomOutcomes(s) ==
  IF s.kind = "wait" THEN {"ok"}
  ELSE IF s.kind = "openai" THEN {"ok", "throwError"}
  ELSE StepOutcomes(s.deref)

\* module level: the environment check throws, or the clients are built and
\* main() is called
CustomStart ==
  /\ program = "customEmbedding" /\ pc = "start"
  /\ IF EnvNames \subseteq env
       THEN pc' = "try" /\ step' = 1 /\ exitCode' = exitCode
       ELSE pc' = "exited" /\ step' = step /\ exitCode' = 1
  /\ UNCHANGED <<program, env, calls, rejected, i, jobStatus, job, lastProgress, ret>>
  /\ UNCHANGED <<inputVars, convVars, searchVars, voiceVars, loopVars>>

\* one awaited step of the try block; a throw runs catch, which rethrows
CustomStep ==
  /\ program = "customEmbedding" /\ pc = "try"
  /\ \E o \in CustomOutcomes(CustomSteps[step]) :
       /\ calls' = IF CustomSteps[step].kind = "moss"
                     THEN Record(Call(CustomSteps[step].op, CustomSteps[step].arg, o))
                     ELSE calls
       /\ IF o # "ok"
            THEN pc' = "finally" /\ rejected' = TRUE /\ step' = step
            ELSE IF step = Len(CustomSteps)
            THEN pc' = "finally" /\ UNCHANGED <<rejected, step>>
            ELSE step' = step + 1 /\ UNCHANGED <<pc, rejected>>
  /\ UNCHANGED <<program, env, exitCode, i, jobStatus, job, lastProgress, ret>>
  /\ UNCHANGED <<inputVars, convVars, searchVars, voiceVars, loopVars>>

\* a deleteIndex helper without its try/catch
HelperRethrows(o) == o \in Throws

\* does the deleteIndex helper throw when mossClient.deleteIndex has outcome o
HelperThrows(o) == FALSE

\* finally { await deleteIndex(INDEX_NAME) }, then main settles and
\* main().catch exits with 1 if it rejected
CustomFinally ==
  /\ program = "customEmbedding" /\ pc = "finally"
  /\ \E o \in StepOutcomes(FALSE) :
       /\ calls' = Record(Call("deleteIndex", "", o))
       /\ rejected' = (rejected \/ HelperThrows(o))
  /\ pc' = "exited"
  /\ exitCode' = IF rejected' THEN 1 ELSE 0
  /\ UNCHANGED <<program, env, step, i, jobStatus, job, lastProgress, ret>>
  /\ UNCHANGED <<inputVars, convVars, searchVars, voiceVars, loopVars>>

CustomEmbedding == CustomStart \/ CustomStep \/ CustomFinally

\* ------------------------------------------------------------------------
\* load-and-query sample: loadAndQuerySample
\* ------------------------------------------------------------------------
queries == <<"how to return damaged item",
             "return shipping label process",
             "refund processing time and policy">>

LoadQueryStart ==
  /\ program = "loadAndQuery" /\ pc = "start"
  /\ IF {"MOSS_PROJECT_ID", "MOSS_PROJECT_KEY", "MOSS_INDEX_NAME"} \subseteq env
       THEN pc' = "loadIndex" /\ exitCode' = exitCode
       ELSE pc' = "exited" /\ exitCode' = 0
  /\ UNCHANGED <<program, env, calls, rejected, step, i, jobStatus, job, lastProgress, ret>>
  /\ UNCHANGED <<inputVars, convVars, searchVars, voiceVars, loopVars>>

\* await client.loadIndex(indexName); a throw goes to the outer catch
LoadQueryLoad ==
  /\ program = "loadAndQuery" /\ pc = "loadIndex"
  /\ \E o \in StepOutcomes(FALSE) :
       /\ calls' = Record(Call("loadIndex", "", o))
       /\ IF o = "ok"
            THEN pc' = "query" /\ i' = 0 /\ exitCode' = exitCode
            ELSE pc' = "exited" /\ i' = i /\ exitCode' = 0
  /\ UNCHANGED <<program, env, rejected, step, jobStatus, job, lastProgress, ret>>
  /\ UNCHANGED <<inputVars, convVars, searchVars, voiceVars, loopVars>>

\* a catch block that tries the same query again
RetryQuery(k) == k

\* a catch block that gives up the remaining queries
StopAfterFailedQuery(k) == Len(queries)

\* where the query loop goes after the query of index k failed
AfterFailedQuery(k) == k + 1

\* one iteration of the for loop; the inner catch logs a failure
LoadQueryQuery ==
  /\ program = "loadAndQuery" /\ pc = "query"
  /\ \E o \in StepOutcomes(TRUE) :
       /\ calls' = Record(Call("query", queries[i + 1], o))
       /\ LET n == IF o = "ok" THEN i + 1 ELSE AfterFailedQuery(i) IN
            IF n < Len(queries)
              THEN i' = n /\ UNCHANGED <<pc, exitCode>>
              ELSE pc' = "exited" /\ exitCode' = 0 /\ i' = i
  /\ UNCHANGED <<program, env, rejected, step, jobStatus, job, lastProgress, ret>>
  /\ UNCHANGED <<inputVars, convVars, searchVars, voiceVars, loopVars>>

LoadAndQuery == LoadQueryStart \/ LoadQueryLoad \/ LoadQueryQuery

\* ------------------------------------------------------------------------
\* clustering.ts: createConversationIndexes
\* ------------------------------------------------------------------------
\* file.endsWith('.json')
EndsWithJson(file) == file # <<>> /\ file[Len(file)] = ".json"

\* file.replace('.json', ''): the first occurrence is removed
RemoveFirstJson(file) ==
  IF \A k \in DOMAIN file : file[k] # ".json" THEN file
  ELSE LET k == CHOOSE n \in DOMAIN file :
                  file[n] = ".json" /\ \A m \in 1..(n - 1) : file[m] # ".json"
       IN SubSeq(file, 1, k - 1) \o SubSeq(file, k + 1, Len(file))

\* const indexName = file.replace('.json', '')
IndexNameOf(file) == RemoveFirstJson(file)

ConvStart ==
  /\ program = "conversationIndexes" /\ pc = "start"
  /\ IF {"MOSS_PROJECT_ID", "MOSS_PROJECT_KEY"} \subseteq env
       THEN pc' = "readdir" /\ exitCode' = exitCode
       ELSE pc' = "exited" /\ exitCode' = 0
  /\ UNCHANGED <<program, env, calls, rejected, step, i, jobStatus, job, lastProgress, ret>>
  /\ UNCHANGED <<inputVars, convVars, searchVars, voiceVars, loopVars>>

\* await readdir(conversationsDir), the filter, and the head of the for loop;
\* a throw goes to the outer catch, which logs
ConvReaddir ==
  /\ program = "conversationIndexes" /\ pc = "readdir"
  /\ \E o \in {"ok", "throwError"} :
       /\ listing' = o
       /\ IF o = "ok"
            THEN /\ jsonFiles' = SelectSeq(files, EndsWithJson)
                 /\ i' = 0
                 /\ IF Len(jsonFiles') > 0
                      THEN pc' = "loadConversationFile" /\ exitCode' = exitCode
                      ELSE pc' = "exited" /\ exitCode' = 0
            ELSE pc' = "exited" /\ exitCode' = 0 /\ UNCHANGED <<jsonFiles, i>>
  /\ UNCHANGED <<program, env, calls, rejected, step, jobStatus, job, lastProgress, ret>>
  /\ UNCHANGED <<processed, successCount, failCount>>
  /\ UNCHANGED <<inputVars, searchVars, voiceVars, loopVars>>

\* the value of i after the iteration for jsonFiles[k] failed
AfterFailedFile(k) == k + 1

\* i++ and the loop test, after an iteration that left i at n
ConvNext(n) ==
  IF n < Len(jsonFiles)
    THEN i' = n /\ pc' = "loadConversationFile" /\ exitCode' = exitCode
    ELSE i' = i /\ pc' = "exited" /\ exitCode' = 0

\* await loadConversationFile(...): it throws (d = -1) or returns d documents
ConvLoad ==
  /\ program = "conversationIndexes" /\ pc = "loadConversationFile"
  /\ \E d \in -1..MaxMessages :
       /\ processed' = Append(processed, [file |-> jsonFiles[i + 1], docs |-> d,
                                          created |-> "none"])
       /\ IF d > 0
            THEN pc' = "createIndex" /\ UNCHANGED <<i, exitCode, failCount>>
            ELSE /\ failCount' = failCount + 1
                 /\ ConvNext(IF d = 0 THEN i + 1 ELSE AfterFailedFile(i))
  /\ UNCHANGED <<program, env, calls, rejected, step, jobStatus, job, lastProgress, ret>>
  /\ UNCHANGED <<listing, jsonFiles, successCount>>
  /\ UNCHANGED <<inputVars, searchVars, voiceVars, loopVars>>

\* await client.createIndex(indexName, documents, 'moss-minilm'); the
\* documents are named by the file they were read from
ConvCreate ==
  /\ program = "conversationIndexes" /\ pc = "createIndex"
  /\ \E o \in {"ok", "throwError"} :
       LET file == jsonFiles[i + 1] IN
       /\ calls' = Record(Call("createIndex", <<IndexNameOf(file), file>>, o))
       /\ processed' = [processed EXCEPT ![Len(processed)].created = o]
       /\ IF o = "ok"
            THEN /\ successCount' = successCount + 1 /\ failCount' = failCount
                 /\ ConvNext(i + 1)
            ELSE /\ failCount' = failCount + 1 /\ successCount' = successCount
                 /\ ConvNext(AfterFailedFile(i))
  /\ UNCHANGED <<program, env, rejected, step, jobStatus, job, lastProgress, ret>>
  /\ UNCHANGED <<listing, jsonFiles>>
  /\ UNCHANGED <<inputVars, searchVars, voiceVars, loopVars>>

ConversationIndexes == ConvStart \/ ConvReaddir \/ ConvLoad \/ ConvCreate

\* ------------------------------------------------------------------------
\* next-js/app/actions.ts: searchMoss
\* ------------------------------------------------------------------------
\* error instanceof Error ? error.message : "An unknown error occurred";
\* reading results.docs.map of a malformed value throws a TypeError
ErrorText(o) == IF o = "throwOther" THEN "An unknown error occurred" ELSE "error.message"

\* the value the catch block returns
Failure(o) == [success |-> FALSE, error |-> ErrorText(o)]

SearchMossStart ==
  /\ program = "searchMoss" /\ pc = "start"
  /\ IF {"MOSS_PROJECT_ID", "MOSS_PROJECT_KEY", "MOSS_INDEX_NAME"} \subseteq env
       THEN pc' = "loadIndex" /\ rejected' = rejected
       ELSE pc' = "settled" /\ rejected' = TRUE
  /\ UNCHANGED <<program, env, calls, exitCode, step, i, jobStatus, job, lastProgress, ret>>
  /\ UNCHANGED <<inputVars, convVars, searchVars, voiceVars, loopVars>>

\* loadIndex awaited with its failure ignored
AfterLoadIgnored(o) == "query"

\* where searchMoss goes after await client.loadIndex had outcome o
AfterLoad(o) == IF o = "ok" THEN "query" ELSE "settled"

SearchMossLoad ==
  /\ program = "searchMoss" /\ pc = "loadIndex"
  /\ \E o \in StepOutcomes(FALSE) :
       /\ calls' = Record(Call("loadIndex", "", o))
       /\ pc' = AfterLoad(o)
       /\ ret' = IF o = "ok" THEN ret ELSE Failure(o)
  /\ UNCHANGED <<program, env, exitCode, rejected, step, i, jobStatus, job, lastProgress>>
  /\ UNCHANGED <<inputVars, convVars, searchVars, voiceVars, loopVars>>

SearchMossQuery ==
  /\ program = "searchMoss" /\ pc = "query"
  /\ \E o \in StepOutcomes(TRUE) :
       /\ calls' = Record(Call("query", "topK: 5", o))
       /\ ret' = IF o = "ok" THEN [success |-> TRUE, error |-> ""] ELSE Failure(o)
  /\ pc' = "settled"
  /\ UNCHANGED <<program, env, exitCode, rejected, step, i, jobStatus, job, lastProgress>>
  /\ UNCHANGED <<inputVars, convVars, searchVars, voiceVars, loopVars>>

SearchMoss == SearchMossStart \/ SearchMossLoad \/ SearchMossQuery

\* ------------------------------------------------------------------------
\* VitePress search modal (script setup of the Search component)
\* ------------------------------------------------------------------------
\* a query response carries at most MaxDocs docs
MaxDocs == 2
\* at most MaxInflight mossClient.query calls are awaited at a time
MaxInflight == 2
\* at most MaxLoaders loadIndex invocations are awaited at a time
MaxLoaders == 2
\* at most MaxTimers timeouts are pending at a time
MaxTimers == 2
\* the clock advances in steps of TickMs
TickMs == 100
\* setTimeout(() => performSearch(q), 200)
DebounceDelay == 200


\* the texts the user types, as sequences of characters
Texts == {<<>>, <<" ">>, <<"a">>, <<"a", " ">>}
\* what results[k] evaluates to when k is out of range
undefined == 0
NoSearch == [n |-> 0, q |-> <<>>, cur |-> <<>>, stable |-> 0]
LoadError == "Could not load search index. Check your Moss configuration."

Min(a, b) == IF a < b THEN a ELSE b
Max(a, b) == IF a > b THEN a ELSE b

\* !q.trim()
Blank(q) == Trim(q) = <<>>

\* the component's state as one record, so that handlers compose
S == [isOpen |-> isOpen, query |-> query, results |-> results,
      selectedIndex |-> selectedIndex, isIndexLoading |-> isIndexLoading,
      isSearching |-> isSearching, errorMsg |-> errorMsg, mossClient |-> mossClient,
      indexLoaded |-> indexLoaded, debounceTimer |-> debounceTimer, timers |-> timers,
      importing |-> importing, loading |-> loading, inflight |-> inflight,
      sinceChange |-> sinceChange, lastSearch |-> lastSearch, lastOpen |-> lastOpen]

Commit(s) ==
  /\ isOpen' = s.isOpen /\ query' = s.query /\ results' = s.results
  /\ selectedIndex' = s.selectedIndex /\ isIndexLoading' = s.isIndexLoading
  /\ isSearching' = s.isSearching /\ errorMsg' = s.errorMsg
  /\ mossClient' = s.mossClient /\ indexLoaded' = s.indexLoaded
  /\ debounceTimer' = s.debounceTimer /\ timers' = s.timers
  /\ importing' = s.importing /\ loading' = s.loading /\ inflight' = s.inflight
  /\ sinceChange' = s.sinceChange /\ lastSearch' = s.lastSearch
  /\ lastOpen' = s.lastOpen

SearchInit ==
  /\ isOpen = FALSE /\ query = <<>> /\ results = <<>> /\ selectedIndex = -1
  /\ isIndexLoading = FALSE /\ isSearching = FALSE /\ errorMsg = ""
  /\ mossClient = FALSE /\ indexLoaded = FALSE /\ debounceTimer = 0
  /\ timers = {} /\ importing = 0 /\ loading = 0 /\ inflight = 0
  /\ sinceChange = DebounceDelay /\ lastSearch = NoSearch /\ lastOpen = "none"

\* a guard that forgets indexLoaded
LoadIndexSkipsWhileLoading(s) == s.isIndexLoading

\* loadIndex returns at once: if (indexLoaded || isIndexLoading.value) return
LoadIndexSkips(s) == s.indexLoaded \/ s.isIndexLoading

\* loadIndex up to its first await
loadIndex(s) ==
  IF LoadIndexSkips(s) THEN s
  ELSE [s EXCEPT !.isIndexLoading = TRUE, !.errorMsg = "", !.importing = @ + 1]

\* open, up to await nextTick()
open(s) ==
  loadIndex([s EXCEPT !.isOpen = TRUE,
                      !.lastOpen = IF s.indexLoaded THEN "loaded"
                                   ELSE IF s.isIndexLoading THEN "loading"
                                   ELSE "idle"])

\* a close that leaves the text in place
closeKeepsQuery(s) == [s EXCEPT !.isOpen = FALSE, !.results = <<>>,
                                !.selectedIndex = -1, !.errorMsg = ""]

close(s) == [s EXCEPT !.isOpen = FALSE, !.query = <<>>, !.results = <<>>,
                      !.selectedIndex = -1, !.errorMsg = ""]

\* a watcher that does not clear the pending timeout
NoClearTimeout(s) == s.timers

\* the timeouts left pending after if (debounceTimer) clearTimeout(debounceTimer)
ClearTimeout(s) == {t \in s.timers : t.id # s.debounceTimer}

\* an id setTimeout can return: not that of a pending timeout, nor the one
\* debounceTimer still holds
FreshIds(s) == {n \in 1..(MaxTimers + 1) : n # s.debounceTimer
                                            /\ \A t \in s.timers : t.id # n}

\* watch(query, (q) => ...), run when the value of query differs from old
WatchQuery(old, s) ==
  IF s.query = old THEN s
  ELSE LET c == [s EXCEPT !.timers = ClearTimeout(s), !.sinceChange = 0] IN
       IF Blank(c.query)
         THEN [c EXCEPT !.results = <<>>, !.selectedIndex = -1]
         ELSE LET id == CHOOSE n \in FreshIds(c) : TRUE IN
              [c EXCEPT !.debounceTimer = id,
                        !.timers = @ \cup {[id |-> id, q |-> c.query, age |-> 0]}]

\* navigateTo(result): close(), then router.go reads result.metadata
navigateTo(s, result) == close(s)

\* results.value[k]
At(seq, k) == IF k + 1 \in DOMAIN seq THEN seq[k + 1] ELSE undefined

\* a guard that only looks at the text
SearchSkipsBlank(s, q) == Blank(q)

\* if (!q.trim() || !mossClient || !indexLoaded) { results.value = []; return }
SearchSkips(s, q) == Blank(q) \/ ~s.mossClient \/ ~s.indexLoaded

\* performSearch(q) up to its await
performSearch(s, q) ==
  LET c == [s EXCEPT !.lastSearch = [n |-> 1, q |-> q, cur |-> s.query,
                                     stable |-> s.sinceChange]] IN
  IF SearchSkips(c, q)
    THEN [c EXCEPT !.results = <<>>]
    ELSE [c EXCEPT !.isSearching = TRUE, !.inflight = @ + 1]

\* e.key?.toLowerCase()
ToLower(key) == IF key = "K" THEN "k" ELSE key

Keys == {"k", "K", "/", "Escape", "ArrowDown", "ArrowUp", "Enter"}
\* the elements a keydown event can target: the modal's input, another
\* element of the modal, or an element of the page
Targets == {[where |-> "input", tagName |-> "INPUT",    isContentEditable |-> FALSE],
            [where |-> "modal", tagName |-> "BUTTON",   isContentEditable |-> FALSE],
            [where |-> "page",  tagName |-> "BODY",     isContentEditable |-> FALSE],
            [where |-> "page",  tagName |-> "INPUT",    isContentEditable |-> FALSE],
            [where |-> "page",  tagName |-> "SELECT",   isContentEditable |-> FALSE],
            [where |-> "page",  tagName |-> "TEXTAREA", isContentEditable |-> FALSE],
            [where |-> "page",  tagName |-> "DIV",      isContentEditable |-> TRUE]}
\* mod: e.metaKey || e.ctrlKey, which only the k shortcut reads
KeyEvents == {e \in [key : Keys, mod : BOOLEAN, target : Targets] :
                e.mod => e.key \in {"k", "K"}}

isEditingContent(e) ==
  e.target.isContentEditable \/ e.target.tagName \in {"INPUT", "SELECT", "TEXTAREA"}

\* the key event is one of the two shortcuts of handleGlobalKeydown
IsShortcut(e) ==
  (ToLower(e.key) = "k" /\ e.mod) \/ (~isEditingContent(e) /\ e.key = "/")

\* isOpen.value ? close() : open()
Toggle(s) == IF s.isOpen THEN close(s) ELSE open(s)

handleGlobalKeydown(s, e) == IF IsShortcut(e) THEN Toggle(s) ELSE s

handleModalKeydown(s, e) ==
  IF e.key = "Escape" THEN close(s)
  ELSE IF e.key = "ArrowDown"
    THEN [s EXCEPT !.selectedIndex = Min(@ + 1, Len(s.results) - 1)]
  ELSE IF e.key = "ArrowUp"
    THEN [s EXCEPT !.selectedIndex = Max(@ - 1, -1)]
  ELSE IF e.key = "Enter" /\ s.selectedIndex >= 0
    THEN navigateTo(s, At(s.results, s.selectedIndex))
  ELSE s

\* the listeners a keydown event reaches while it bubbles: @keydown of the
\* input, @keydown of the overlay, then the window listener
Dispatch(s, e) ==
  LET a == IF e.target.where = "input" THEN handleModalKeydown(s, e) ELSE s
      b == IF e.target.where # "page" THEN handleModalKeydown(a, e) ELSE a
  IN handleGlobalKeydown(b, e)

\* a further loadIndex invocation fits the bound
CanLoad == IF LoadIndexSkips(S) THEN TRUE ELSE importing + loading < MaxLoaders

\* <ul class="moss-results"> is rendered
ResultsShown ==
  /\ isOpen /\ ~isIndexLoading /\ errorMsg = "" /\ ~Blank(query)
  /\ ~isSearching /\ Len(results) # 0

\* a handler ran and the watcher of query was flushed
Handle(s) == Commit(WatchQuery(query, s)) /\ UNCHANGED <<scriptVars, inputVars, convVars, voiceVars, loopVars>>

\* the elements of the modal exist while it is open
Dispatchable(e) == e.target.where # "page" => isOpen

KeydownOf(e) == Dispatchable(e) /\ Handle(Dispatch(S, e))

Keydown ==
  /\ CanLoad
  /\ \E e \in {x \in KeyEvents : Dispatchable(x)} : KeydownOf(e)

\* SearchButton @click="open"
ClickSearchButton == CanLoad /\ Handle(open(S))

\* overlay @click.self="close", close button @click="close"
ClickClose == isOpen /\ Handle(close(S))

\* v-model="query": the user edits the input
Input ==
  /\ isOpen
  /\ Cardinality(timers) < MaxTimers
  /\ \E v \in Texts \ {query} : Handle([S EXCEPT !.query = v])

\* clear button, v-if="query", @click="query = ''"
ClickClear == isOpen /\ query # <<>> /\ Handle([S EXCEPT !.query = <<>>])

\* li @mouseenter="selectedIndex = i"
MouseEnter ==
  /\ ResultsShown
  /\ \E k \in 0..(Len(results) - 1) : Handle([S EXCEPT !.selectedIndex = k])

\* li @click="navigateTo(result)"
ClickResult ==
  /\ ResultsShown
  /\ \E k \in 0..(Len(results) - 1) : Handle(navigateTo(S, results[k + 1]))

\* TickMs pass
Tick ==
  /\ IF sinceChange < DebounceDelay THEN TRUE
     ELSE \E t \in timers : t.age < DebounceDelay
  /\ Handle([S EXCEPT !.sinceChange = Min(@ + TickMs, DebounceDelay),
                       !.timers = {[t EXCEPT !.age = Min(@ + TickMs, DebounceDelay)]
                                     : t \in timers}])

\* a timeout is due: () => performSearch(q)
TimerFire ==
  /\ inflight < MaxInflight
  /\ \E t \in timers :
       /\ t.age >= DebounceDelay
       /\ Handle(performSearch([S EXCEPT !.timers = @ \ {t}], t.q))

\* results.value = response.docs ?? []
DocsOf(n) == [k \in 1..n |-> k]

\* selectedIndex after mossClient.query threw and results was emptied
IndexAfterQueryError(s) == s.selectedIndex

\* mossClient.query resolved; n = -1 stands for a response without docs
QueryResolve ==
  /\ inflight > 0
  /\ \E n \in -1..MaxDocs :
       Handle([S EXCEPT !.results = IF n < 0 THEN <<>> ELSE DocsOf(n),
                        !.selectedIndex = -1,
                        !.isSearching = FALSE,
                        !.inflight = @ - 1])

\* mossClient.query threw
QueryReject ==
  /\ inflight > 0
  /\ Handle([S EXCEPT !.results = <<>>,
                       !.selectedIndex = IndexAfterQueryError(S),
                       !.isSearching = FALSE,
                       !.inflight = @ - 1])

\* import('@inferedge/moss') resolved: the client is built and asked to load
ImportResolve ==
  /\ importing > 0
  /\ Handle([S EXCEPT !.importing = @ - 1, !.mossClient = TRUE, !.loading = @ + 1])

\* the catch and finally blocks of loadIndex
LoadFailed(s) == [s EXCEPT !.errorMsg = LoadError, !.isIndexLoading = FALSE]

ImportReject ==
  /\ importing > 0
  /\ Handle(LoadFailed([S EXCEPT !.importing = @ - 1]))

\* mossClient.loadIndex resolved
LoadResolve ==
  /\ loading > 0
  /\ Handle([S EXCEPT !.loading = @ - 1, !.indexLoaded = TRUE,
                       !.isIndexLoading = FALSE])

LoadReject ==
  /\ loading > 0
  /\ Handle(LoadFailed([S EXCEPT !.loading = @ - 1]))

\* ------------------------------------------------------------------------
\* livekit-agent react-app: VoiceAgent
\* ------------------------------------------------------------------------
\* at most MaxRooms Room objects are created
MaxRooms == 2
\* at most MaxInProgress connectToRoom invocations are in progress at a time
MaxInProgress == 2
\* at most MaxErrorTimers error timeouts are pending at a time
MaxErrorTimers == 2

\* `error: ${error.message}`
ErrorStatus == "error: message"
Statuses == {"disconnected", "connecting", "connected", "disconnecting", ErrorStatus}
\* status.startsWith('error')
StartsWithError(st) == st \in {ErrorStatus}

NoTimers == [st \in Statuses |-> 0]
Pending(timerBag) ==
  timerBag["disconnected"] + timerBag["connecting"] + timerBag["connected"]
    + timerBag["disconnecting"] + timerBag[ErrorStatus]

VoiceInit ==
  /\ status = "disconnected" /\ agentReady = FALSE /\ isAgentSpeaking = FALSE
  /\ roomRef = 0 /\ rooms = <<>> /\ connects = <<>> /\ disconnects = <<>>
  /\ errorTimers = NoTimers

\* the component's state as one record, so that handlers compose
V == [status |-> status, agentReady |-> agentReady, isAgentSpeaking |-> isAgentSpeaking,
      roomRef |-> roomRef, rooms |-> rooms, connects |-> connects,
      disconnects |-> disconnects, errorTimers |-> errorTimers]

VoiceCommit(v) ==
  /\ status' = v.status /\ agentReady' = v.agentReady
  /\ isAgentSpeaking' = v.isAgentSpeaking /\ roomRef' = v.roomRef
  /\ rooms' = v.rooms /\ connects' = v.connects /\ disconnects' = v.disconnects
  /\ errorTimers' = v.errorTimers
  /\ UNCHANGED <<scriptVars, inputVars, convVars, searchVars, loopVars>>

Without(seq, k) == SubSeq(seq, 1, k - 1) \o SubSeq(seq, k + 1, Len(seq))

\* cleanupRoom: removeAllListeners(), disconnect(), roomRef.current = null
cleanupRoom(v) ==
  IF v.roomRef # 0
    THEN [v EXCEPT !.rooms[v.roomRef].state = "disconnected",
                   !.rooms[v.roomRef].listeners = FALSE,
                   !.roomRef = 0]
    ELSE v

\* room.on(RoomEvent.Disconnected, ...)
onDisconnected(v) ==
  [cleanupRoom(v) EXCEPT !.status = "disconnected", !.isAgentSpeaking = FALSE]

\* room r is no longer connected, and emits RoomEvent.Disconnected to the
\* listeners it has
Disconnected(v, r) ==
  LET w == [v EXCEPT !.rooms[r].state = "disconnected"] IN
  IF v.rooms[r].listeners THEN onDisconnected(w) ELSE w

\* the status the timeout callback of connectToRoom reads: the one of the
\* render that connectToRoom was created in
ClosureStatus(v, captured) == captured

\* the catch block of connectToRoom, for the invocation at position k
connectFailed(v, k) ==
  [v EXCEPT !.status = ErrorStatus,
            !.errorTimers[v.connects[k].status] = @ + 1,
            !.connects = Without(@, k)]

\* checkReady: setAgentReady(data.ready), or false when the fetch failed
ReadyPoll ==
  \E ready \in BOOLEAN :
    /\ ready # agentReady
    /\ VoiceCommit([V EXCEPT !.agentReady = ready])

\* disabled={status === 'connecting' || status === 'disconnecting' || !agentReady}
\* on the button rendered when !isConnected
StartCallEnabled ==
  /\ status # "connected"
  /\ ~(status = "connecting" \/ status = "disconnecting" \/ ~agentReady)

\* onClick={connectToRoom}, up to await getToken
StartCall ==
  /\ StartCallEnabled
  /\ Len(connects) < MaxInProgress
  /\ Len(rooms) + Len(connects) < MaxRooms
  /\ Pending(errorTimers) + Len(connects) < MaxErrorTimers
  /\ VoiceCommit([V EXCEPT !.status = "connecting",
                           !.connects = Append(@, [status |-> status, at |-> "getToken",
                                                   room |-> 0])])

\* getToken resolved: new Room(), roomRef.current = room, the url is read
\* (which throws when the reply has none) and room.connect is called
TokenResolve ==
  \E k \in DOMAIN connects, o \in {"ok", "malformed"} :
    /\ connects[k].at = "getToken"
    /\ LET r == Len(rooms) + 1
           v == [V EXCEPT !.rooms = Append(@, [state |-> "new", listeners |-> FALSE,
                                               ended |-> 0]),
                          !.roomRef = r,
                          !.connects[k].room = r] IN
       IF o = "ok"
         THEN VoiceCommit([v EXCEPT !.rooms[r].state = "connecting",
                                    !.connects[k].at = "connect"])
         ELSE VoiceCommit(connectFailed(v, k))

TokenReject ==
  \E k \in DOMAIN connects :
    /\ connects[k].at = "getToken"
    /\ VoiceCommit(connectFailed(V, k))

\* await room.connect resolved: setStatus('connected')
ConnectResolve ==
  \E k \in DOMAIN connects :
    /\ connects[k].at = "connect"
    /\ rooms[connects[k].room].state = "connecting"
    /\ VoiceCommit([V EXCEPT !.rooms[connects[k].room].state = "connected",
                             !.status = "connected",
                             !.connects[k].at = "createLocalAudioTrack"])

ConnectReject ==
  \E k \in DOMAIN connects :
    /\ connects[k].at = "connect"
    /\ VoiceCommit(connectFailed([V EXCEPT !.rooms[connects[k].room].state = "disconnected"], k))

MicResolve ==
  \E k \in DOMAIN connects :
    /\ connects[k].at = "createLocalAudioTrack"
    /\ VoiceCommit([V EXCEPT !.connects[k].at = "publishTrack"])

MicReject ==
  \E k \in DOMAIN connects :
    /\ connects[k].at = "createLocalAudioTrack"
    /\ VoiceCommit(connectFailed(V, k))

\* publishTrack resolved: the room.on(...) calls register the listeners, and
\* connectToRoom returns
PublishResolve ==
  \E k \in DOMAIN connects :
    /\ connects[k].at = "publishTrack"
    /\ VoiceCommit([V EXCEPT !.rooms[connects[k].room].listeners = TRUE,
                             !.connects = Without(@, k)])

PublishReject ==
  \E k \in DOMAIN connects :
    /\ connects[k].at = "publishTrack"
    /\ VoiceCommit(connectFailed(V, k))

\* the timeout of the catch block fires
ErrorTimerFire ==
  \E captured \in {st \in Statuses : errorTimers[st] > 0} :
    LET v == [V EXCEPT !.errorTimers[captured] = @ - 1] IN
    VoiceCommit(IF StartsWithError(ClosureStatus(V, captured))
                  THEN [v EXCEPT !.status = "disconnected"]
                  ELSE v)

\* onClick={disconnectFromRoom} on the button rendered when isConnected, up
\* to await roomRef.current.disconnect()
EndCall ==
  /\ status = "connected"
  /\ roomRef # 0 /\ status # "disconnecting"
  /\ Len(disconnects) < MaxInProgress
  /\ VoiceCommit([V EXCEPT !.status = "disconnecting",
                           !.rooms[roomRef].ended = @ + 1,
                           !.disconnects = Append(@, roomRef)])

\* roomRef.current.disconnect() resolved
DisconnectResolve ==
  \E k \in DOMAIN disconnects :
    VoiceCommit(Disconnected([V EXCEPT !.disconnects = Without(@, k)], disconnects[k]))

\* roomRef.current.disconnect() threw: the catch block of disconnectFromRoom
DisconnectReject ==
  \E k \in DOMAIN disconnects :
    VoiceCommit(cleanupRoom([V EXCEPT !.disconnects = Without(@, k),
                                      !.status = "disconnected",
                                      !.isAgentSpeaking = FALSE]))

\* the server or the network ends the connection of room r
ServerDisconnect ==
  \E r \in DOMAIN rooms :
    /\ rooms[r].state = "connected"
    /\ VoiceCommit(Disconnected(V, r))

\* AudioLevelChanged, Muted, Unmuted, TrackUnsubscribed of a room whose
\* listeners are registered
AgentAudio ==
  /\ \E r \in DOMAIN rooms : rooms[r].state = "connected" /\ rooms[r].listeners
  /\ VoiceCommit([V EXCEPT !.isAgentSpeaking = ~isAgentSpeaking])

\* ------------------------------------------------------------------------
\* Specifications
\* ------------------------------------------------------------------------
\* the scripts and the server action; the search modal is not mounted
Init == ScriptInit /\ SearchInit /\ VoiceInit

Next ==
  \/ ClusterStart \/ ClusterHasActive \/ ClusterDelete \/ ClusterStartJob
  \/ ClusterPoll \/ ClusterWait \/ ClusterGetClusters \/ JobAdvance
  \/ CompStart \/ CompCall \/ CompCleanup
  \/ CustomStart \/ CustomStep \/ CustomFinally
  \/ LoadQueryStart \/ LoadQueryLoad \/ LoadQueryQuery
  \/ SearchMossStart \/ SearchMossLoad \/ SearchMossQuery
  \/ ConvStart \/ ConvReaddir \/ ConvLoad \/ ConvCreate

Spec == Init /\ [][Next]_vars

\* every awaited call of main settles and its continuation runs, and the
\* service does not leave the job queued or running forever
FairSpec == Spec /\ WF_vars(ClusterMain) /\ WF_vars(JobAdvance)

\* the search modal, mounted in a page; no script runs
ModalInit ==
  /\ SearchInit
  /\ program = "searchModal" /\ env = {} /\ pc = "start" /\ calls = <<>>
  /\ exitCode = -1 /\ rejected = FALSE /\ step = 0 /\ i = 0
  /\ jobStatus = "none" /\ job = NoJob /\ lastProgress = -1 /\ ret = NoRet
  /\ indexSet = Unset /\ files = <<>>
  /\ listing = "none" /\ jsonFiles = <<>> /\ processed = <<>>
  /\ successCount = 0 /\ failCount = 0
  /\ VoiceInit /\ LoopInit

ModalNext ==
  \/ Keydown \/ ClickSearchButton \/ ClickClose \/ Input \/ ClickClear
  \/ MouseEnter \/ ClickResult \/ Tick \/ TimerFire
  \/ QueryResolve \/ QueryReject
  \/ ImportResolve \/ ImportReject \/ LoadResolve \/ LoadReject

ModalSpec == ModalInit /\ [][ModalNext]_vars

\* the voice-agent component, mounted; no script runs and no modal exists
VoiceAgentInit ==
  /\ VoiceInit /\ SearchInit
  /\ program = "voiceAgent" /\ env = {} /\ pc = "start" /\ calls = <<>>
  /\ exitCode = -1 /\ rejected = FALSE /\ step = 0 /\ i = 0
  /\ jobStatus = "none" /\ job = NoJob /\ lastProgress = -1 /\ ret = NoRet
  /\ indexSet = Unset /\ files = <<>>
  /\ listing = "none" /\ jsonFiles = <<>> /\ processed = <<>>
  /\ successCount = 0 /\ failCount = 0
  /\ LoopInit

\* what the user, the agent and the server do
VoiceEnvironment == ReadyPoll \/ StartCall \/ EndCall \/ ServerDisconnect \/ AgentAudio

\* the awaited promises settle and the timeouts fire
VoiceSettle ==
  \/ TokenResolve \/ TokenReject \/ ConnectResolve \/ ConnectReject
  \/ MicResolve \/ MicReject \/ PublishResolve \/ PublishReject
  \/ DisconnectResolve \/ DisconnectReject \/ ErrorTimerFire

VoiceNext ==
  \/ ReadyPoll \/ StartCall \/ EndCall \/ ServerDisconnect \/ AgentAudio
  \/ TokenResolve \/ TokenReject \/ ConnectResolve \/ ConnectReject
  \/ MicResolve \/ MicReject \/ PublishResolve \/ PublishReject
  \/ DisconnectResolve \/ DisconnectReject \/ ErrorTimerFire

VoiceSpec == VoiceAgentInit /\ [][VoiceNext]_vars

\* every awaited promise settles and every timeout fires; nothing is assumed
\* of the user, the agent or the server
VoiceFairSpec == VoiceSpec /\ WF_vars(VoiceSettle)

\* ------------------------------------------------------------------------
\* Claims
\* ------------------------------------------------------------------------
\* the positions of op in the call log
CallsOf(op) == {k \in DOMAIN calls : calls[k].op = op}
InLoop(p) == p \in {"getJobStatus", "wait"}

C4_LoopEnds ==
  /\ [](program = "clustering" /\ InLoop(pc) => <>(~InLoop(pc)))
  /\ [][program = "clustering" /\ InLoop(pc) /\ ~InLoop(pc') =>
          /\ pc = "getJobStatus"
          /\ \/ job'.status \in Terminal /\ jobStatus \in Terminal
             \/ rejected' /\ pc' = "exited"]_vars

\* C4 witness: the loop was left by exit 1 after a poll returned 'failed',
\* which was not the first poll
C4_Witness ==
  /\ program = "clustering" /\ pc = "exited" /\ job.status = "failed"
  /\ Cardinality(CallsOf("getJobStatus")) >= 3

Last(seq) == seq[Len(seq)]
\* a call of op was issued before position k
Before(op, k) == \E j \in 1..(k - 1) : calls[j].op = op
IndexSamples == {"comprehensive", "customEmbedding"}
Creates == program \in IndexSamples /\ CallsOf("createIndex") # {}

\* C5 as claimed: in a run that creates an index createIndex is the first
\* call, loadIndex precedes every query, addDocs and deleteDocs call, and
\* deleteIndex is the last call.
C5_Original ==
  Creates =>
    /\ calls[1].op = "createIndex"
    /\ \A k \in DOMAIN calls :
         calls[k].op \in {"query", "addDocs", "deleteDocs"} => Before("loadIndex", k)
    /\ pc = "exited" => Last(calls).op = "deleteIndex"

\* C5 as amended: createIndex is the first call and deleteIndex the last;
\* loadIndex precedes the deleteDocs call and every query of the
\* comprehensive sample; addDocs is called before loadIndex, and the
\* custom-embedding sample issues its first query before loadIndex and its
\* second after it.
C5_Lifecycle ==
  Creates =>
    /\ calls[1].op = "createIndex"
    /\ pc = "exited" => Last(calls).op = "deleteIndex"
    /\ \A k \in DOMAIN calls :
         /\ calls[k].op = "deleteDocs" => Before("loadIndex", k)
         /\ calls[k].op = "addDocs" => ~Before("loadIndex", k)
         /\ calls[k].op = "query" /\ program = "comprehensive" => Before("loadIndex", k)
         /\ calls[k].op = "query" /\ program = "customEmbedding" =>
              (Before("loadIndex", k) <=> Before("query", k))
         /\ calls[k].op = "deleteIndex" => \A j \in (k + 1)..Len(calls) :
                                             calls[j].op = "deleteIndex"

\* C5 witness: the comprehensive sample ran all its steps, deleteDocs and
\* the final deleteIndex included
C5_Witness ==
  /\ program = "comprehensive" /\ pc = "exited"
  /\ CallsOf("deleteDocs") # {} /\ CallsOf("addDocs") # {}
  /\ Last(calls).op = "deleteIndex" /\ Last(calls).outcome = "ok"

\* the first position of the log whose call did not simply succeed
FirstFailure == CHOOSE k \in DOMAIN calls :
                  /\ calls[k].outcome # "ok"
                  /\ \A j \in 1..(k - 1) : calls[j].outcome = "ok"
AllOk == \A k \in DOMAIN calls : calls[k].outcome = "ok"

\* C6: the promise of comprehensiveMossExample never rejects; when a step
\* fails the next and last call is the cleanup deleteIndex, whatever its
\* outcome; on the success path all 17 calls were made and the last of them,
\* step 12's deleteIndex, succeeded.
C6_CleanupSwallowed ==
  program = "comprehensive" =>
    /\ ~rejected
    /\ pc = "catch" => ~AllOk /\ FirstFailure = Len(calls)
    /\ pc = "exited" /\ ~AllOk =>
         /\ FirstFailure = Len(calls) - 1
         /\ Last(calls).op = "deleteIndex"
    /\ pc = "exited" /\ AllOk /\ calls # <<>> =>
         /\ Len(calls) = Len(CompSteps) + Len(searchQueries) - 1
         /\ step = Len(CompSteps)
         /\ Last(calls) = Call("deleteIndex", "", "ok")

\* C6 witness: a step failed and the cleanup deleteIndex threw as well
C6_Witness ==
  /\ program = "comprehensive" /\ pc = "exited" /\ Len(calls) >= 3
  /\ calls[Len(calls) - 1].op = "query"
  /\ calls[Len(calls) - 1].outcome # "ok"
  /\ ~Returned(Last(calls))

\* the call at k repeats, with the same arguments, the call that failed at j
Reissued(j, k) ==
  /\ j < k /\ ~Returned(calls[j])
  /\ calls[k].op = calls[j].op /\ calls[k].arg = calls[j].arg

\* C7 as claimed: no call repeats, with the same arguments, a call that
\* failed earlier in the run.
C7_Original == \A j, k \in DOMAIN calls : ~Reissued(j, k)

\* C7 as amended: the only call that repeats a failed one is the cleanup
\* deleteIndex of the comprehensive sample after step 12's deleteIndex
\* failed; after a failed call a script continues with other arguments
\* (load-and-query, conversation indexing), makes its one cleanup call, or
\* makes no call at all.
C7_NoRetry ==
  /\ \A j, k \in DOMAIN calls :
       Reissued(j, k) =>
         /\ program = "comprehensive" /\ step = Len(CompSteps)
         /\ calls[j].op = "deleteIndex"
         /\ k = j + 1 /\ k = Len(calls)
  /\ \A j \in DOMAIN calls :
       ~Returned(calls[j]) =>
         IF program = "loadAndQuery" /\ calls[j].op = "query"
           THEN \A k \in (j + 1)..Len(calls) : calls[k].op = "query"
         ELSE IF program = "conversationIndexes"
           THEN \A k \in (j + 1)..Len(calls) :
                  calls[k].op = "createIndex" /\ calls[k].arg # calls[j].arg
         ELSE IF program \in IndexSamples
           THEN \/ j = Len(calls)
                \/ j = Len(calls) - 1 /\ Last(calls).op = "deleteIndex"
         ELSE j = Len(calls) /\ pc \in {"exited", "settled"}

\* C7 witness: step 12's deleteIndex failed and the cleanup issued it again
C7_Witness ==
  /\ program = "comprehensive" /\ Len(calls) >= 2
  /\ Reissued(Len(calls) - 1, Len(calls))

\* C10: searchMoss rejects exactly when an environment variable is missing,
\* and then no SDK call was made; otherwise it calls loadIndex once, calls
\* query (topK 5) once and only after loadIndex succeeded, and resolves to
\* success exactly when both succeeded, else to {success: false, error}.
C10_SearchMoss ==
  program = "searchMoss" =>
    LET envOk == {"MOSS_PROJECT_ID", "MOSS_PROJECT_KEY", "MOSS_INDEX_NAME"} \subseteq env IN
    /\ rejected <=> (pc = "settled" /\ ~envOk)
    /\ ~envOk => calls = <<>>
    /\ Len(calls) <= 2
    /\ Len(calls) >= 1 => calls[1].op = "loadIndex"
    /\ Len(calls) = 2 => calls[1].outcome = "ok" /\ calls[2] .op = "query"
                          /\ calls[2].arg = "topK: 5"
    /\ pc = "settled" /\ envOk =>
         /\ calls # <<>>
         /\ ret.success <=> (Len(calls) = 2 /\ AllOk)
         /\ ~ret.success => ret.error = ErrorText(Last(calls).outcome)
         /\ ret.success => ret.error = ""
    /\ pc # "settled" => ret = NoRet

\* C10 witness: loadIndex succeeded, query threw, and searchMoss resolved
\* to a failure
C10_Witness ==
  /\ program = "searchMoss" /\ pc = "settled" /\ ~rejected
  /\ Len(calls) = 2 /\ ~Returned(calls[2]) /\ ~ret.success

\* C1: at most one debounce timeout is pending, and it is the one for the
\* current, non-blank input; performSearch(q) is invoked only with a
\* non-blank q that has been the input for the whole DebounceDelay.
C1_Debounce ==
  /\ Cardinality(timers) <= 1
  /\ \A t \in timers :
       /\ t.id = debounceTimer
       /\ t.q = query /\ ~Blank(t.q)
       /\ t.age <= sinceChange
  /\ Blank(query) => timers = {}
  /\ lastSearch.n > 0 =>
       /\ ~Blank(lastSearch.q)
       /\ lastSearch.q = lastSearch.cur
       /\ lastSearch.stable >= DebounceDelay

\* C1 witness: a search ran for the text "a ", and the input has since
\* changed to "a", whose timeout is pending
C1_Witness ==
  /\ lastSearch.n > 0 /\ lastSearch.q = <<"a", " ">>
  /\ query = <<"a">> /\ timers # {}

\* C2: no client exists before the first open(); at most one loadIndex
\* invocation is in progress; once the index is loaded it stays loaded and
\* no further load is started.
C2_LoadOnce ==
  /\ [](mossClient \/ importing + loading > 0 => lastOpen # "none")
  /\ [](importing + loading <= 1)
  /\ [](indexLoaded => importing + loading = 0)
  /\ [][indexLoaded => indexLoaded' /\ importing' = 0 /\ loading' = 0]_vars
  /\ [][importing' > importing => ~indexLoaded /\ importing + loading = 0]_vars

\* C2 witness: the modal was opened again after the index was loaded
C2_Witness == isOpen /\ indexLoaded /\ lastOpen = "loaded"

\* C8 as claimed: selectedIndex designates nothing or an existing result.
C8_SelectionInRange ==
  /\ -1 <= selectedIndex
  /\ selectedIndex <= Len(results) - 1

\* C9 as claimed: after a keydown of '/' on an element that is not being
\* edited, isOpen is true.
C9_SlashOpens ==
  [][\A e \in KeyEvents :
       e.key = "/" /\ ~isEditingContent(e) /\ KeydownOf(e) => isOpen']_vars

\* the names MOSS_INDEX_SET lists: its comma-separated pieces with the blanks
\* around them removed, the empty ones left out
ListedNames ==
  LET t == indexSet.text
      Commas == {0, Len(t) + 1} \cup {k \in DOMAIN t : t[k] = ","}
      \* the pieces, by the positions of the separators around them
      Pieces == {p \in Commas \X Commas :
                   p[1] < p[2] /\ \A c \in Commas : ~(p[1] < c /\ c < p[2])}
      Body(p) == SubSeq(t, p[1] + 1, p[2] - 1)
      NonBlank == {p \in Pieces : \E k \in DOMAIN Body(p) : Body(p)[k] # " "}
      Strip(b) == LET ks == {k \in DOMAIN b : b[k] # " "}
                      lo == CHOOSE k \in ks : \A m \in ks : k <= m
                      hi == CHOOSE k \in ks : \A m \in ks : k >= m
                  IN SubSeq(b, lo, hi)
      Rank(p) == Cardinality({q \in NonBlank : q[1] < p[1]}) + 1
  IN [n \in 1..Cardinality(NonBlank) |->
        Strip(Body(CHOOSE p \in NonBlank : Rank(p) = n))]

\* the index set the subset script is to cluster
ExpectedIndexNames ==
  IF indexSet.set /\ indexSet.text # <<>> THEN ListedNames ELSE DefaultIndexNames

\* the log positions of op whose call returned
Returns(op) == {k \in CallsOf(op) : Returned(calls[k])}

CustomMossSteps == SelectSeq(CustomSteps, LAMBDA st : st.kind = "moss")

\* C13: when the environment check fails the module throws (exit code 1) and
\* no SDK call is made; otherwise deleteIndex is called exactly once, as the
\* last call of the run, after the try block completed or a step threw; the
\* outcome of that deleteIndex changes nothing; the process exits with code 0
\* exactly when every step of the try block succeeded, and with code 1, main
\* having rejected, when a step threw.
C13_DeleteOnce ==
  program = "customEmbedding" =>
    /\ ~(EnvNames \subseteq env) => calls = <<>> /\ pc \in {"start", "exited"}
    /\ \A k \in CallsOf("deleteIndex") : k = Len(calls) /\ pc = "exited"
    /\ pc = "finally" => CallsOf("deleteIndex") = {}
    /\ pc = "exited" =>
         IF EnvNames \subseteq env
           THEN /\ Cardinality(CallsOf("deleteIndex")) = 1
                /\ (exitCode = 1) = rejected
                /\ (exitCode = 0) = ~rejected
                /\ ~rejected <=>
                     /\ Len(calls) = Len(CustomMossSteps) + 1
                     /\ \A k \in 1..(Len(calls) - 1) : calls[k].outcome = "ok"
                /\ rejected => step <= Len(CustomSteps)
           ELSE exitCode = 1

\* C13 witness: addDocs threw, deleteIndex was called and threw too, and
\* the process exited with code 1
C13_Witness ==
  /\ program = "customEmbedding" /\ pc = "exited" /\ exitCode = 1 /\ rejected
  /\ Len(calls) = 3
  /\ calls[2].op = "addDocs" /\ ~Returned(calls[2])
  /\ calls[3].op = "deleteIndex" /\ ~Returned(calls[3])

\* the position of file in the directory listing
PositionOf(file) == CHOOSE k \in DOMAIN files : files[k] = file
\* the .json files of the directory
JsonNames == {files[k] : k \in {n \in DOMAIN files : files[n][Len(files[n])] = ".json"}}
\* the iterations that called createIndex
Indexed == {k \in DOMAIN processed : processed[k].created # "none"}

\* C14 without the separateness of the indexes: the files processed are
\* .json files of the directory, each once and in listing order; createIndex
\* is called once for each processed file that yielded a document, in the
\* same order, and for no other; each finished iteration counted once, as a
\* success exactly when createIndex returned; and when the function ends after
\* readdir returned, every .json file was processed and successCount +
\* failCount is their number.
C14_EveryFileCounted ==
  program = "conversationIndexes" =>
    /\ \A k \in DOMAIN processed :
         /\ processed[k].file \in JsonNames
         /\ \A j \in 1..(k - 1) :
              PositionOf(processed[j].file) < PositionOf(processed[k].file)
         /\ processed[k].created # "none" => processed[k].docs >= 1
         /\ processed[k].docs >= 1 /\ processed[k].created = "none" =>
              k = Len(processed) /\ pc = "createIndex"
    /\ Len(calls) = Cardinality(Indexed)
    /\ \A k \in DOMAIN calls :
         LET n == CHOOSE m \in Indexed : Cardinality({x \in Indexed : x <= m}) = k IN
         /\ calls[k].op = "createIndex"
         /\ calls[k].arg[2] = processed[n].file
         /\ calls[k].outcome = processed[n].created
    /\ successCount = Cardinality({k \in DOMAIN processed : processed[k].created = "ok"})
    /\ successCount + failCount =
         Len(processed) - (IF pc = "createIndex" THEN 1 ELSE 0)
    /\ pc = "exited" /\ listing = "ok" =>
         /\ Len(processed) = Cardinality(JsonNames)
         /\ successCount + failCount = Cardinality(JsonNames)
         /\ Len(jsonFiles) = Cardinality(JsonNames)
    /\ listing # "ok" => processed = <<>>

\* C14 as claimed: the above, and the indexes are separate: no two files are
\* indexed under the same index name.
C14_SeparateIndexes ==
  /\ C14_EveryFileCounted
  /\ program = "conversationIndexes" =>
       \A j, k \in DOMAIN calls : j # k => calls[j].arg[1] # calls[k].arg[1]

\* C14 witness: the first file failed to index, the second was indexed, and
\* the function ended with one success and one failure
C14_Witness ==
  /\ program = "conversationIndexes" /\ pc = "exited"
  /\ Len(calls) = 2 /\ ~Returned(calls[1]) /\ Returned(calls[2])
  /\ successCount = 1 /\ failCount = 1

\* C15: a mossClient.query call is awaited only while a client exists and
\* the index is loaded; indexLoaded becomes true only when a
\* mossClient.loadIndex call resolves; a query call is started only with a
\* non-blank text; and performSearch with a blank text, without a client or
\* with the index not loaded empties results and starts no call.
C15_QueryAfterLoad ==
  /\ [](inflight > 0 => mossClient /\ indexLoaded)
  /\ [](indexLoaded => mossClient /\ lastOpen # "none")
  /\ [][~indexLoaded /\ indexLoaded' => loading > 0 /\ loading' = loading - 1]_vars
  /\ [][inflight' > inflight =>
         /\ mossClient /\ indexLoaded
         /\ inflight' = inflight + 1
         /\ ~Blank(lastSearch'.q)]_vars
  /\ [](\A q \in Texts :
         Blank(q) \/ ~mossClient \/ ~indexLoaded =>
           /\ performSearch(S, q).results = <<>>
           /\ performSearch(S, q).inflight = inflight
           /\ performSearch(S, q).isSearching = isSearching)
  /\ [][TimerFire /\ ~(mossClient /\ indexLoaded) =>
         results' = <<>> /\ inflight' = inflight]_vars

\* C15 witness: the debounced search ran while the index was still being
\* loaded, and no query call was made
C15_Witness ==
  /\ lastSearch.n > 0 /\ ~indexLoaded /\ loading > 0
  /\ inflight = 0 /\ results = <<>> /\ query = <<"a">>

\* C16: every step that closes the modal leaves query empty, results empty,
\* selectedIndex -1, errorMsg empty and no timeout pending, and starts no
\* query call; while the modal is closed the text stays empty, no timeout is
\* pending and no query call is started.
C16_CloseCancels ==
  /\ [][isOpen /\ ~isOpen' =>
         /\ query' = <<>> /\ results' = <<>> /\ selectedIndex' = -1 /\ errorMsg' = ""
         /\ timers' = {}
         /\ inflight' = inflight]_vars
  /\ [](~isOpen => query = <<>> /\ timers = {})
  /\ [][~isOpen => inflight' <= inflight /\ lastSearch' = lastSearch]_vars

\* C16 witness: the modal is closed again with the index loaded, a timeout
\* had been set for a typed text, and no search has run
C16_Witness ==
  /\ ~isOpen /\ indexLoaded /\ debounceTimer # 0
  /\ lastSearch.n = 0 /\ sinceChange = 0

\* C17 as claimed: when the timeout of a failed connectToRoom fires while
\* the status is still the error, nothing else being in progress, the status
\* becomes 'disconnected'.
C17_ErrorResets ==
  [][ErrorTimerFire /\ StartsWithError(status) /\ Pending(errorTimers) = 1
       /\ connects = <<>> /\ disconnects = <<>>
     => status' = "disconnected"]_vars

\* a Room that is connected
Live == {r \in DOMAIN rooms : rooms[r].state = "connected"}

\* C18 as claimed: End Call sets the status to 'disconnecting';
\* disconnectFromRoom calls disconnect() at most once on a Room; and from
\* 'disconnecting' the status eventually is 'disconnected', with
\* roomRef.current null and isAgentSpeaking false.
C18_EndCallCompletes ==
  /\ [][EndCall => status' = "disconnecting"]_vars
  /\ [](\A r \in DOMAIN rooms : rooms[r].ended <= 1)
  /\ (status = "disconnecting") ~>
       (status = "disconnected" /\ roomRef = 0 /\ ~isAgentSpeaking)

\* C19 as claimed: a Room is connected only while the status is 'connected'
\* or 'disconnecting', and while the status is 'disconnected' or an error
\* roomRef.current is null and no Room is connected.
C19_StatusAgrees ==
  /\ Live # {} => status \in {"connected", "disconnecting"}
  /\ status = "disconnected" \/ StartsWithError(status) => roomRef = 0 /\ Live = {}

\* C20 as claimed: at most one connectToRoom invocation is in progress; the
\* Start Call button is enabled only when the status is none of 'connecting',
\* 'connected', 'disconnecting' and the agent is ready; and while an
\* invocation awaits the token or the connection the status is 'connecting'.
C20_OneConnect ==
  /\ Len(connects) <= 1
  /\ StartCallEnabled =>
       status \notin {"connecting", "connected", "disconnecting"} /\ agentReady
  /\ \A k \in DOMAIN connects :
       connects[k].at \in {"getToken", "connect"} => status = "connecting"

\* C21: the polls of the clustering loop are separated by one fixed wait: the
\* first getJobStatus call is made with no wait before it, every later one
\* is made after exactly one wait of 7000 ms since the poll before it, a wait
\* is started only after a poll that returned a status other than
\* 'completed' and 'failed', and none is performed after a poll that
\* returned one of these.
C21_FixedWait ==
  /\ [][ClusterPoll =>
          sleeps = IF CallsOf("getJobStatus") = {} THEN <<>> ELSE <<7000>>]_vars
  /\ [][ClusterWait => job.status \notin Terminal \cup {"none"} /\ sleeps = <<>>]_vars
  /\ [](job.status \in Terminal => sleeps = <<>>)

\* C21 witness: a second poll was made, and it returned 'completed' or 'failed'
C21_Witness ==
  /\ program \in ClusterPrograms
  /\ Cardinality(CallsOf("getJobStatus")) >= 2
  /\ \A k \in CallsOf("getJobStatus") : Returned(calls[k])
  /\ job.status \in Terminal /\ sleeps = <<>>

\* the progress of the last printed line, -1 before any line
LastLine == IF lines = <<>> THEN -1 ELSE lines[Len(lines)]

\* C22: the poll loop prints a progress line only when the progress changed:
\* a poll that returned prints a line exactly when its job.progress differs
\* from the progress of the last printed line, the line it prints carries
\* that progress, the first poll always prints, lastProgress is the progress
\* of the last printed line (-1 before any), and two consecutively printed
\* lines never carry the same progress.
C22_ProgressOnChange ==
  /\ [][ClusterPoll /\ ~rejected' =>
          /\ shown' <=> job'.progress # LastLine
          /\ lines' = IF shown' THEN PrintLine(lines, job'.progress) ELSE lines
          /\ lines = <<>> => shown']_vars
  /\ [](lastProgress = LastLine)
  /\ [](\A k \in 1..(Len(lines) - 1) : lines[k] # lines[k + 1])

\* C22 witness: two lines were printed, and a later poll that returned the
\* progress of the second printed nothing
C22_Witness ==
  /\ program \in ClusterPrograms
  /\ Len(lines) = 2 /\ ~shown /\ job.progress = lines[2]
====
